---- MODULE Spec2Model ----
(***************************************************************************)
(* Model of hbuzz.py: the Steam Deck haptic buzzer.                        *)
(*                                                                         *)
(* main() creates a HID handle, opens the controller by vendor/product id, *)
(* then loops forever: send_haptic_pulse(pad='both', ...) followed by a    *)
(* two second pause.  Ctrl+C (KeyboardInterrupt) leaves the loop; the      *)
(* finally clause closes the handle.                                       *)
(*                                                                         *)
(* Two specifications are given.  Spec is the whole program (main).        *)
(* SpecPulse calls send_haptic_pulse once on an open handle with arguments *)
(* drawn from a sample set, to study the report encoder on its own.        *)
(***************************************************************************)
EXTENDS Integers, Sequences, FiniteSets, TLC

VARIABLES
    devices,      \* hid enumeration for the vendor/product: interface numbers, in order
    handle,       \* the hid.device() object: [state, iface]
    pc,           \* position of the single thread of control
    caller,       \* who called send_haptic_pulse: "main" or "direct"
    args,         \* arguments of the running send_haptic_pulse call
    pads,         \* pad ids the for loop still has to visit
    message,      \* the buffer built for the current pad
    pulse_count,  \* main's loop counter
    exc,          \* the exception in flight ("none" when there is none)
    interruptAt,  \* where Ctrl+C landed ("none" when it did not)
    exit,         \* process exit status, Running while the process lives
    trace         \* calls made on the device handle and pauses completed, in order

vars == <<devices, handle, pc, caller, args, pads, message, pulse_count,
          exc, interruptAt, exit, trace>>

----------------------------------------------------------------------------
(* Bounds *)

MaxIter == 3     \* loop iterations explored
MaxIface == 2    \* highest interface number an attached controller may expose

(* A few values for each 16-bit field: the ends of the range, both sides   *)
(* of the byte boundary, the values main uses, and values outside u16.     *)
Samples == {-1, 0, 1, 50, 255, 256, 4000, 32768, 65535, 65536, 98304}

PadSelectors == {"left", "right", "both", "other"}

----------------------------------------------------------------------------
(* Program constants *)

VALVE_VENDOR_ID == 10462        \* 0x28de
STEAM_DECK_PRODUCT_ID == 4613   \* 0x1205
HAPTIC_INTERFACE == 2
HAPTIC_CMD == 143               \* 0x8f
HAPTIC_SUBCMD == 7
REPORT_LEN == 64
MAIN_AMPLITUDE == 32768         \* 0x8000
MAIN_PERIOD == 50               \* 0x0032
MAIN_COUNT == 4000
EXIT_FAILURE == 1               \* sys.exit(1)
EXIT_OK == 0
Running == -1

----------------------------------------------------------------------------
(* struct.pack('<BBBHHH', ...) and the padding *)

\* An 'H' field accepts 0..65535; anything else makes struct.pack raise struct.error.
InRangeHWrap(v) == TRUE
InRangeH(v) == v >= 0 /\ v <= 65535

\* A 'B' field accepts 0..255.
InRangeB(v) == v >= 0 /\ v <= 255

\* '<H': two bytes, low byte first.
PackHBigEndian(v) == <<(v \div 256) % 256, v % 256>>
PackH(v) == <<v % 256, (v \div 256) % 256>>

PackAccepts(pad_id, amplitude, period, count) ==
    /\ InRangeB(HAPTIC_CMD) /\ InRangeB(HAPTIC_SUBCMD) /\ InRangeB(pad_id)
    /\ InRangeH(amplitude) /\ InRangeH(period) /\ InRangeH(count)

StructPackSwapped(pad_id, amplitude, period, count) ==
    <<HAPTIC_CMD, HAPTIC_SUBCMD, pad_id>>
        \o PackH(amplitude) \o PackH(count) \o PackH(period)
StructPack(pad_id, amplitude, period, count) ==
    <<HAPTIC_CMD, HAPTIC_SUBCMD, pad_id>>
        \o PackH(amplitude) \o PackH(period) \o PackH(count)

\* message += b'\x00' * (64 - len(message))
Pad64(m) == m \o [i \in 1..(REPORT_LEN - Len(m)) |-> 0]

\* pad selector -> pad ids, in the order they are written
PadsForLeftFirst(pad) ==
    IF pad = "both" THEN <<1, 0>> ELSE IF pad = "left" THEN <<1>> ELSE <<0>>
PadsFor(pad) ==
    IF pad = "both" THEN <<0, 1>> ELSE IF pad = "left" THEN <<1>> ELSE <<0>>

----------------------------------------------------------------------------
(* Exceptions *)

\* classes that derive from Exception (KeyboardInterrupt and SystemExit do not)
ExceptionClasses == {"OSError", "ValueError", "struct.error"}

\* what device.write may raise
WriteErrors == {"OSError", "ValueError"}

\* send_haptic_pulse: try: device.write(message) / except Exception
CatchesNothing(e) == FALSE
WriteHandlerCatches(e) == e \in ExceptionClasses

\* main: which clause of the try statement receives an exception raised in its body
MainHandler(e) ==
    IF e = "OSError" THEN "except_oserror"
    ELSE IF e = "KeyboardInterrupt" THEN "except_interrupt"
    ELSE "finally"

\* where an exception leaving send_haptic_pulse goes
Unwind(e) == IF caller = "main" THEN MainHandler(e) ELSE "raised"

\* while True:
LoopCondOnce == pulse_count < 1
LoopCond == TRUE

----------------------------------------------------------------------------
(* Device library *)

\* find_steam_deck_controller(): a fresh, unopened handle when some enumerated
\* device has interface number 2, None otherwise.  main() never calls it.
NoHandle == [state |-> "none", iface |-> -1]
NewHandle == [state |-> "created", iface |-> -1]

find_steam_deck_controller(devs) ==
    IF \E i \in 1..Len(devs) : devs[i] = HAPTIC_INTERFACE
    THEN NewHandle
    ELSE NoHandle

\* device.open(vendor, product): no interface is named, the first enumerated
\* match is the one opened.
OpenedHandle(devs) == [state |-> "open", iface |-> devs[1]]

Event(ev, msg, ok, iface) == [ev |-> ev, msg |-> msg, ok |-> ok, iface |-> iface]

RECURSIVE Perms(_)
Perms(S) ==
    IF S = {} THEN {<<>>}
    ELSE UNION {{<<x>> \o p : p \in Perms(S \ {x})} : x \in S}

\* every order in which any subset of the interfaces can be enumerated
Enumerations == UNION {Perms(S) : S \in SUBSET (0..MaxIface)}

----------------------------------------------------------------------------
(* Initial states *)

NoArgs == [pad |-> "both", amplitude |-> 0, period |-> 0, count |-> 0]

\* main() after line 80: the handle exists and is not open
Init ==
    /\ devices \in Enumerations
    /\ handle = NewHandle
    /\ pc = "open"
    /\ caller = "main"
    /\ args = NoArgs
    /\ pads = <<>>
    /\ message = <<>>
    /\ pulse_count = 0
    /\ exc = "none"
    /\ interruptAt = "none"
    /\ exit = Running
    /\ trace = <<>>

\* a direct call send_haptic_pulse(device, pad, amplitude, period, count)
\* on an open handle
InitPulse ==
    /\ devices = <<HAPTIC_INTERFACE>>
    /\ handle = OpenedHandle(devices)
    /\ pc = "call"
    /\ caller = "direct"
    /\ args \in [pad : PadSelectors, amplitude : Samples,
                 period : Samples, count : Samples]
    /\ pads = <<>>
    /\ message = <<>>
    /\ pulse_count = 0
    /\ exc = "none"
    /\ interruptAt = "none"
    /\ exit = Running
    /\ trace = <<>>

----------------------------------------------------------------------------
(* main *)

\* device.open(VALVE_VENDOR_ID, STEAM_DECK_PRODUCT_ID) succeeds
OpenOk ==
    /\ pc = "open"
    /\ devices # <<>>
    /\ handle' = OpenedHandle(devices)
    /\ trace' = Append(trace, Event("open", <<>>, TRUE, devices[1]))
    /\ pc' = "loop"
    /\ UNCHANGED <<devices, caller, args, pads, message, pulse_count, exc,
                   interruptAt, exit>>

\* device.open raises OSError: nothing attached, or no permission
OpenFails ==
    /\ pc = "open"
    /\ trace' = Append(trace, Event("open", <<>>, FALSE, -1))
    /\ exc' = "OSError"
    /\ pc' = MainHandler("OSError")
    /\ UNCHANGED <<devices, handle, caller, args, pads, message, pulse_count,
                   interruptAt, exit>>

\* while True: pulse_count += 1; send_haptic_pulse(device, pad='both', ...)
LoopIter ==
    /\ pc = "loop"
    /\ pulse_count < MaxIter
    /\ IF LoopCond
       THEN /\ pulse_count' = pulse_count + 1
            /\ args' = [pad |-> "both", amplitude |-> MAIN_AMPLITUDE,
                        period |-> MAIN_PERIOD, count |-> MAIN_COUNT]
            /\ pc' = "call"
       ELSE /\ pc' = "finally"
            /\ UNCHANGED <<pulse_count, args>>
    /\ UNCHANGED <<devices, handle, caller, pads, message, exc, interruptAt,
                   exit, trace>>

\* time.sleep(2) runs to its end
Sleep ==
    /\ pc = "sleep"
    /\ trace' = Append(trace, Event("sleep", <<>>, TRUE, -1))
    /\ pc' = "loop"
    /\ UNCHANGED <<devices, handle, caller, args, pads, message, pulse_count,
                   exc, interruptAt, exit>>

\* Ctrl+C while the try body runs: KeyboardInterrupt is raised at the
\* statement about to run (at "sleep": inside the pause, which is cut short)
Interrupt ==
    /\ caller = "main"
    /\ pc \in {"open", "loop", "call", "pack", "write", "sleep"}
    /\ interruptAt' = pc
    /\ exc' = "KeyboardInterrupt"
    /\ pc' = MainHandler("KeyboardInterrupt")
    /\ UNCHANGED <<devices, handle, caller, args, pads, message, pulse_count,
                   exit, trace>>

\* Ctrl+C while device.write blocks: the write has been issued, then
\* KeyboardInterrupt is raised; except Exception does not catch it
InterruptDuringWrite ==
    /\ caller = "main"
    /\ pc = "write"
    /\ trace' = Append(trace, Event("write", message, TRUE, handle.iface))
    /\ interruptAt' = "in_write"
    /\ exc' = "KeyboardInterrupt"
    /\ pc' = MainHandler("KeyboardInterrupt")
    /\ UNCHANGED <<devices, handle, caller, args, pads, message, pulse_count,
                   exit>>

\* except OSError: print the troubleshooting text; sys.exit(1)
ExceptOSErrorNoExit ==
    /\ pc = "except_oserror"
    /\ exc' = "none"
    /\ pc' = "finally"
    /\ UNCHANGED <<devices, handle, caller, args, pads, message, pulse_count,
                   interruptAt, exit, trace>>
ExceptOSError ==
    /\ pc = "except_oserror"
    /\ exc' = "SystemExit"
    /\ pc' = "finally"
    /\ UNCHANGED <<devices, handle, caller, args, pads, message, pulse_count,
                   interruptAt, exit, trace>>

\* except KeyboardInterrupt: print("Exiting...")
ExceptInterruptExits ==
    /\ pc = "except_interrupt"
    /\ exc' = "SystemExit"
    /\ pc' = "finally"
    /\ UNCHANGED <<devices, handle, caller, args, pads, message, pulse_count,
                   interruptAt, exit, trace>>
ExceptInterrupt ==
    /\ pc = "except_interrupt"
    /\ exc' = "none"
    /\ pc' = "finally"
    /\ UNCHANGED <<devices, handle, caller, args, pads, message, pulse_count,
                   interruptAt, exit, trace>>

\* finally: device.close(); then main returns, or the exception in flight
\* (SystemExit(1), or one no clause caught) ends the process
FinallyNoClose ==
    /\ pc = "finally"
    /\ exit' = IF exc = "none" THEN EXIT_OK ELSE EXIT_FAILURE
    /\ pc' = "done"
    /\ UNCHANGED <<devices, handle, caller, args, pads, message, pulse_count,
                   exc, interruptAt, trace>>
Finally ==
    /\ pc = "finally"
    /\ handle' = [handle EXCEPT !.state = "closed"]
    /\ trace' = Append(trace, Event("close", <<>>, TRUE, handle.iface))
    /\ exit' = IF exc = "none" THEN EXIT_OK ELSE EXIT_FAILURE
    /\ pc' = "done"
    /\ UNCHANGED <<devices, caller, args, pads, message, pulse_count, exc,
                   interruptAt>>

----------------------------------------------------------------------------
(* send_haptic_pulse *)

\* pads = [0x00, 0x01] / [0x01] / [0x00]
SelectPads ==
    /\ pc = "call"
    /\ pads' = PadsFor(args.pad)
    /\ pc' = "pack"
    /\ UNCHANGED <<devices, handle, caller, args, message, pulse_count, exc,
                   interruptAt, exit, trace>>

\* for pad_id in pads: message = struct.pack(...); pad to 64 bytes.
\* struct.error is raised outside the try around the write.
BuildMessage ==
    /\ pc = "pack"
    /\ pads # <<>>
    /\ IF PackAccepts(Head(pads), args.amplitude, args.period, args.count)
       THEN /\ message' = Pad64(StructPack(Head(pads), args.amplitude,
                                           args.period, args.count))
            /\ pc' = "write"
            /\ exc' = exc
       ELSE /\ exc' = "struct.error"
            /\ pc' = Unwind("struct.error")
            /\ message' = message
    /\ UNCHANGED <<devices, handle, caller, args, pads, pulse_count,
                   interruptAt, exit, trace>>

\* try: device.write(message) / except Exception as e: print(...)
WriteMessage ==
    /\ pc = "write"
    /\ \E outcome \in {"ok"} \cup WriteErrors :
        /\ trace' = Append(trace, Event("write", message, outcome = "ok",
                                        handle.iface))
        /\ IF outcome = "ok" \/ WriteHandlerCatches(outcome)
           THEN /\ pads' = Tail(pads)
                /\ pc' = "pack"
                /\ exc' = exc
           ELSE /\ exc' = outcome
                /\ pc' = Unwind(outcome)
                /\ pads' = pads
    /\ UNCHANGED <<devices, handle, caller, args, message, pulse_count,
                   interruptAt, exit>>

\* the for loop is exhausted: send_haptic_pulse returns None
Return ==
    /\ pc = "pack"
    /\ pads = <<>>
    /\ pc' = IF caller = "main" THEN "sleep" ELSE "returned"
    /\ UNCHANGED <<devices, handle, caller, args, pads, message, pulse_count,
                   exc, interruptAt, exit, trace>>

----------------------------------------------------------------------------
Next ==
    \/ OpenOk
    \/ OpenFails
    \/ LoopIter
    \/ SelectPads
    \/ BuildMessage
    \/ WriteMessage
    \/ Return
    \/ Sleep
    \/ Interrupt
    \/ InterruptDuringWrite
    \/ ExceptOSError
    \/ ExceptInterrupt
    \/ Finally

Spec == Init /\ [][Next]_vars

NextPulse ==
    \/ SelectPads
    \/ BuildMessage
    \/ WriteMessage
    \/ Return

SpecPulse == InitPulse /\ [][NextPulse]_vars

----------------------------------------------------------------------------
(* Reading the trace *)

IsWrite(e) == e.ev = "write"
IsClose(e) == e.ev = "close"
IsSleep(e) == e.ev = "sleep"

Writes == SelectSeq(trace, IsWrite)
NumWrites == Len(Writes)
NumCloses == Len(SelectSeq(trace, IsClose))
NumSleeps == Len(SelectSeq(trace, IsSleep))

OpenFailed == \E i \in 1..Len(trace) : trace[i].ev = "open" /\ ~trace[i].ok
OpenSucceeded == \E i \in 1..Len(trace) : trace[i].ev = "open" /\ trace[i].ok
Interrupted == interruptAt # "none"

\* two bytes read as a little-endian unsigned 16-bit integer
LE16(lo, hi) == lo + 256 * hi

Zeros(n) == [i \in 1..n |-> 0]

----------------------------------------------------------------------------
(* C1: on every exit path of main() after the handle was created (open     *)
(* failure, interrupt at or during a write, interrupt during the pause),   *)
(* close is called exactly once and no write follows the close.            *)
Thm_C1_CloseOnceOnExit ==
    /\ NumCloses <= 1
    /\ pc = "done" => NumCloses = 1
    /\ pc = "done" => handle.state = "closed"
    /\ \A i, j \in 1..Len(trace) :
          (i < j /\ IsClose(trace[i])) => ~IsWrite(trace[j])
    /\ NumCloses = 1 => pc = "done"

Wit_C1_InterruptDuringWriteClosed ==
    /\ pc = "done"
    /\ interruptAt = "in_write"
    /\ NumCloses = 1
    /\ NumWrites = 3

(* C2: if opening the device fails, the process ends with a nonzero exit   *)
(* status and no write is attempted in the whole run.                      *)
Thm_C2_OpenFailureExitsNonzero ==
    OpenFailed =>
        /\ NumWrites = 0
        /\ pc \in {"except_oserror", "finally", "done"}
        /\ pc = "done" => (exit # Running /\ exit # EXIT_OK)

Wit_C2_OpenFailedDone ==
    /\ pc = "done"
    /\ OpenFailed
    /\ exit = EXIT_FAILURE
    /\ devices # <<>>

(* C3 as stated: an interrupt after N loop iterations gives exactly 2N     *)
(* writes, one close and exit status zero, wherever in an iteration it     *)
(* lands.  N is read as generously as the sentence allows: the pauses      *)
(* completed, or the iterations started.                                   *)
Orig_C3_WholeCyclesOnInterrupt ==
    (pc = "done" /\ Interrupted) =>
        /\ NumCloses = 1
        /\ exit = EXIT_OK
        /\ \/ NumWrites = 2 * NumSleeps
           \/ NumWrites = 2 * pulse_count

\* writes already issued in the iteration the interrupt landed in
WritesInInterruptedIteration ==
    IF interruptAt \in {"open", "loop", "call"} THEN 0
    ELSE IF interruptAt = "sleep" THEN 2
    ELSE IF interruptAt = "in_write" THEN 3 - Len(pads)
    ELSE 2 - Len(pads)

(* C3 amended: an interrupt after N completed iterations (N pauses) gives  *)
(* one close, exit status zero, and 2N writes plus the writes already      *)
(* issued in the iteration it landed in: 0 before the first write, 1 once  *)
(* the first write was issued, 2 once the second was issued (so also       *)
(* during the pause).                                                      *)
Thm_C3_InterruptCloseAndWriteCount ==
    (pc = "done" /\ Interrupted) =>
        /\ NumCloses = 1
        /\ exit = EXIT_OK
        /\ NumWrites = 2 * NumSleeps + WritesInInterruptedIteration
        /\ NumWrites \in {2 * NumSleeps, 2 * NumSleeps + 1, 2 * NumSleeps + 2}
        /\ interruptAt = "sleep" => NumWrites = 2 * pulse_count

Wit_C3_InterruptBetweenWrites ==
    /\ pc = "done"
    /\ interruptAt = "write"
    /\ Len(pads) = 1
    /\ NumSleeps = 2
    /\ NumWrites = 5
    /\ exit = EXIT_OK

OutOfRange(a) ==
    \E v \in {a.amplitude, a.period, a.count} : v < 0 \/ v > 65535

(* C4 as stated: for every amplitude, period and count, also above 0xFFFF, *)
(* no error is raised and every report is written, 64 bytes long, with     *)
(* each value reduced mod 2^16.                                            *)
Orig_C4_OutOfRangeWraps ==
    /\ exc = "none"
    /\ pc # "raised"
    /\ \A i \in 1..Len(trace) : IsWrite(trace[i]) =>
          /\ Len(trace[i].msg) = REPORT_LEN
          /\ LE16(trace[i].msg[4], trace[i].msg[5]) = args.amplitude % 65536
          /\ LE16(trace[i].msg[6], trace[i].msg[7]) = args.period % 65536
          /\ LE16(trace[i].msg[8], trace[i].msg[9]) = args.count % 65536

(* C4 amended: every buffer written is exactly 64 bytes; with amplitude,   *)
(* period and count all in [0, 0xFFFF] the call raises nothing and writes  *)
(* every report; a value outside that range is rejected: struct.error      *)
(* leaves send_haptic_pulse before the first write, so nothing is written. *)
Thm_C4_SixtyFourBytesOrRejected ==
    /\ \A i \in 1..Len(trace) : IsWrite(trace[i]) =>
          Len(trace[i].msg) = REPORT_LEN
    /\ OutOfRange(args) =>
          /\ NumWrites = 0
          /\ pc \in {"call", "pack", "raised"}
          /\ pc = "raised" => exc = "struct.error"
    /\ ~OutOfRange(args) =>
          /\ exc = "none"
          /\ pc # "raised"
          /\ pc = "returned" => NumWrites = Len(PadsFor(args.pad))

Wit_C4_AmplitudeAboveU16Rejected ==
    /\ pc = "raised"
    /\ exc = "struct.error"
    /\ args.amplitude = 65536
    /\ args.period = 50
    /\ NumWrites = 0

(* C5: for pad in {left, right, both} one call issues 1 write for left or  *)
(* right and 2 for both; byte 2 is 0x01 for left, 0x00 for right, and for  *)
(* both 0x00 then 0x01 with the same amplitude, period and count bytes.    *)
Thm_C5_WritesPerPadSelector ==
    (pc = "returned" /\ args.pad \in {"left", "right", "both"}) =>
        /\ args.pad = "left" =>
              NumWrites = 1 /\ Writes[1].msg[3] = 1
        /\ args.pad = "right" =>
              NumWrites = 1 /\ Writes[1].msg[3] = 0
        /\ args.pad = "both" =>
              /\ NumWrites = 2
              /\ Writes[1].msg[3] = 0
              /\ Writes[2].msg[3] = 1
              /\ SubSeq(Writes[1].msg, 4, 9) = SubSeq(Writes[2].msg, 4, 9)

Wit_C5_BothReturned ==
    /\ pc = "returned"
    /\ args.pad = "both"
    /\ NumWrites = 2
    /\ args.amplitude = 65535
    /\ args.count = 1

ExampleReport == <<143, 7, 1, 0, 128, 50, 0, 160, 15>> \o Zeros(55)

(* C6: every report written has byte 0 = 0x8f, byte 1 = 0x07, byte 2 = pad *)
(* id, bytes 3-4 amplitude, 5-6 period, 7-8 count (low byte first), bytes  *)
(* 9..63 zero; left, 0x8000, 0x0032, 4000 gives                            *)
(* 8f 07 01 00 80 32 00 a0 0f and 55 zero bytes.                           *)
Thm_C6_WireFormat ==
    /\ \A i \in 1..NumWrites :
          LET m == Writes[i].msg IN
          /\ Len(m) = 64
          /\ m[1] = 143
          /\ m[2] = 7
          /\ m[3] = (IF args.pad = "left" THEN 1
                     ELSE IF args.pad = "both" THEN i - 1 ELSE 0)
          /\ m[4] = args.amplitude % 256
          /\ m[5] = args.amplitude \div 256
          /\ m[6] = args.period % 256
          /\ m[7] = args.period \div 256
          /\ m[8] = args.count % 256
          /\ m[9] = args.count \div 256
          /\ \A k \in 10..64 : m[k] = 0
    /\ (/\ pc = "returned"
        /\ args = [pad |-> "left", amplitude |-> 32768, period |-> 50,
                   count |-> 4000])
          => (NumWrites = 1 /\ Writes[1].msg = ExampleReport)

Wit_C6_ExampleWritten ==
    /\ pc = "returned"
    /\ args = [pad |-> "left", amplitude |-> 32768, period |-> 50,
               count |-> 4000]
    /\ NumWrites = 1
    /\ Writes[1].msg = ExampleReport

(* C7: a failed write is caught inside send_haptic_pulse: no exception     *)
(* from a write is ever in flight, what follows a failed write is what     *)
(* follows a successful one (the other pad's report, then the pause, then  *)
(* the next iteration), the failed report is not written again, and the    *)
(* process ends only on an interrupt or an open failure.                   *)
Thm_C7_WriteFailureDoesNotAbort ==
    /\ exc # "ValueError"
    /\ exc = "OSError" => OpenFailed
    /\ pc = "done" => (Interrupted \/ OpenFailed)
    /\ \A i \in 1..Len(trace) :
          (IsWrite(trace[i]) /\ ~trace[i].ok) =>
              /\ (i < Len(trace) /\ trace[i].msg[3] = 0) =>
                    \/ IsWrite(trace[i+1]) /\ trace[i+1].msg[3] = 1
                    \/ IsClose(trace[i+1])
              /\ (i < Len(trace) /\ trace[i].msg[3] = 1) =>
                    \/ IsSleep(trace[i+1])
                    \/ IsClose(trace[i+1])
              /\ (i = Len(trace) /\ ~Interrupted) =>
                    \/ pc = "pack"
                    \/ pc = "write" /\ trace[i].msg[3] = 0 /\ message[3] = 1
                    \/ pc = "sleep" /\ trace[i].msg[3] = 1

Wit_C7_FailedWriteThenNextIteration ==
    /\ Len(trace) >= 5
    /\ trace[1].ev = "open"
    /\ IsWrite(trace[2]) /\ ~trace[2].ok
    /\ IsWrite(trace[3]) /\ ~trace[3].ok
    /\ IsSleep(trace[4])
    /\ IsWrite(trace[5]) /\ trace[5].ok
    /\ pulse_count = 2

(* C8: the handle main() writes to belongs to interface 2 of the           *)
(* vendor/product, never to another interface of the same device.          *)
Orig_C8_WritesOnlyToInterface2 ==
    /\ handle.state = "open" => handle.iface = HAPTIC_INTERFACE
    /\ \A i \in 1..Len(trace) :
          IsWrite(trace[i]) => trace[i].iface = HAPTIC_INTERFACE

(* C9: each 16-bit field read back from its two bytes, low byte first, is  *)
(* the value that was passed, whatever the other fields and the pad are.   *)
Thm_C9_FieldsRoundTrip ==
    \A i \in 1..Len(trace) : IsWrite(trace[i]) =>
        /\ LE16(trace[i].msg[4], trace[i].msg[5]) = args.amplitude
        /\ LE16(trace[i].msg[6], trace[i].msg[7]) = args.period
        /\ LE16(trace[i].msg[8], trace[i].msg[9]) = args.count

Wit_C9_MixedFieldsWritten ==
    /\ NumWrites >= 1
    /\ args.amplitude = 256
    /\ args.period = 65535
    /\ args.count = 255
    /\ args.pad = "right"

MainReport(pad_id) == <<143, 7, pad_id, 0, 128, 50, 0, 160, 15>> \o Zeros(55)

(* C10: once the open succeeded main() ends only by an interrupt; every    *)
(* write carries amplitude 0x8000, period 0x0032, count 4000; a cycle is   *)
(* right pad, left pad, and exactly one pause separates two cycles.        *)
Thm_C10_LoopRepeatsFixedPulse ==
    /\ (OpenSucceeded /\ pc \in {"finally", "done"}) => Interrupted
    /\ \A i \in 1..Len(trace) :
          /\ IsWrite(trace[i]) =>
                trace[i].msg \in {MainReport(0), MainReport(1)}
          /\ (IsWrite(trace[i]) /\ trace[i].msg[3] = 0) =>
                (i > 1 /\ (IsSleep(trace[i-1]) \/ trace[i-1].ev = "open"))
          /\ (IsWrite(trace[i]) /\ trace[i].msg[3] = 1) =>
                (i > 1 /\ IsWrite(trace[i-1]) /\ trace[i-1].msg[3] = 0)
          /\ IsSleep(trace[i]) =>
                (i > 1 /\ IsWrite(trace[i-1]) /\ trace[i-1].msg[3] = 1)
    /\ (pc = "loop" /\ ~Interrupted) =>
          (NumSleeps = pulse_count /\ NumWrites = 2 * pulse_count)

Wit_C10_ThirdIterationReached ==
    /\ pc = "call"
    /\ pulse_count = 3
    /\ NumSleeps = 2
    /\ NumWrites = 4
    /\ ~Interrupted

====
